---------------------------- MODULE Spec2Model ----------------------------
(***************************************************************************)
(* A model of the arcade-ai adapters:                                      *)
(*   - the CrewAI tool function and the authorization wait loop            *)
(*     (contrib/crewai/crewai_arcade/manager.py,                           *)
(*      contrib/common/common_arcade/auth.py and manager.py);              *)
(*   - the Zendesk article search and its pagination loop                  *)
(*     (toolkits/zendesk/arcade_zendesk/tools/search_articles.py and       *)
(*      toolkits/zendesk/arcade_zendesk/utils.py).                         *)
(*                                                                         *)
(* Python's None is the empty tuple and a present value x is <<x>>, so an  *)
(* Optional[str] that is "" (falsy, but not None) stays apart from None.   *)
(***************************************************************************)
EXTENDS Integers, Sequences, FiniteSets, TLC

None == <<>>
Some(x) == <<x>>
Val(o) == o[1]

\* Python truthiness of an Optional[str]: None and "" are falsy.
TruthyStr(o) == o # None /\ Val(o) # ""
\* Python truthiness of an Optional[int]: None and 0 are falsy.
TruthyInt(o) == o # None /\ Val(o) # 0

\* Python truthiness of an Optional[str] kept as characters, or of an
\* Optional[list]: None and the empty sequence are falsy.
TruthySeq(o) == o # None /\ Val(o) # <<>>

Min(a, b) == IF a <= b THEN a ELSE b

(***************************************************************************)
(* Tool manager: state.                                                    *)
(***************************************************************************)
VARIABLES
    self_tools,     \* BaseArcadeManager._tools: full tool name -> ToolDefinition
    user_id,        \* BaseArcadeManager.user_id
    tf_pc,          \* position inside tool_function / wait_for_completion
    caller,         \* who entered wait_for_completion: "tool_function" or "direct"
    tool_name,      \* the tool_name the tool function was created for
    needs_auth,     \* what requires_auth(tool_name) answered on entry
    auth_response,  \* the local auth_response (Optional)
    timeout,        \* wait_for_completion's timeout argument
    elapsed,        \* time.time() - start_time
    auth_ret,       \* what authorize returned in this invocation (Optional)
    wfc_arg,        \* the response wait_for_completion was entered with (Optional)
    wfc_ret,        \* what wait_for_completion returned (Optional)
    wfc_exit,       \* how wait_for_completion ended: none/completed/timeout/raised
    last_seen,      \* most recent response the wait loop has seen (Optional)
    n_authorize,    \* client.tools.authorize calls of this invocation
    n_status,       \* client.auth.status calls of this invocation
    n_execute,      \* client.tools.execute calls of this invocation
    exec_response,  \* what client.tools.execute answered in this invocation (Optional)
    gt_call,        \* the get_tools call that ran last: its arguments, the registry
                    \* before it and the list it returned; None when none did
    authorized_before,  \* whether an earlier invocation of the tool function
                        \* ended its wait with a completed authorization
    result          \* outcome of the invocation

tvars == <<self_tools, user_id, tf_pc, caller, tool_name, needs_auth,
           auth_response, timeout,
           elapsed, auth_ret, wfc_arg, wfc_ret, wfc_exit, last_seen, n_authorize,
           n_status, n_execute, exec_response, gt_call, authorized_before, result>>

(***************************************************************************)
(* Article search: state.                                                  *)
(***************************************************************************)
VARIABLES
    s_pc,           \* "idle", "request" (a GET is outstanding) or "done"
    s_caller,       \* "search_articles", or "fetch_all_pages" called on its own
    args,           \* the arguments (and context) of the search_articles call
    params,         \* the params mapping, shared by caller and fetch_all_pages
    supplied,       \* params as the caller handed it to fetch_all_pages
    max_pages,      \* fetch_all_pages's max_pages argument (Optional)
    all_results,    \* fetch_all_pages's all_results
    current_page,   \* fetch_all_pages's current_page
    pages_fetched,  \* fetch_all_pages's pages_fetched
    requests,       \* the page parameter of every GET issued, in order
    responses,      \* every page_data received, in order
    failure,        \* the exception a GET of this call raised (Optional)
    s_result        \* outcome of the call

svars == <<s_pc, s_caller, args, params, supplied, max_pages, all_results, current_page,
           pages_fetched, requests, responses, failure, s_result>>

(***************************************************************************)
(* Result processing: state.                                               *)
(***************************************************************************)
VARIABLES
    p_pc,               \* "idle" or "done"
    p_results,          \* process_search_results's results argument
    p_include_body,     \* its include_body argument
    p_max_body_length,  \* its max_body_length argument (Optional)
    p_output            \* the list it returned

pvars == <<p_pc, p_results, p_include_body, p_max_body_length, p_output>>

\* The pagination loop of fetch_all_pages reduced to what its three break tests
\* read, for runs of any length.
VARIABLES
    lp_pc,              \* "idle", "get" (a GET is outstanding), "body" or "returned"
    lp_max_pages,       \* the max_pages argument (Optional)
    lp_pages_fetched,   \* pages_fetched, counted up to MaxCounted
    lp_len,             \* len(all_results)
    lp_page_data        \* the response the loop body is working on (Optional)

lvars == <<lp_pc, lp_max_pages, lp_pages_fetched, lp_len, lp_page_data>>

\* One call of truncate_text.
VARIABLES
    tr_pc,              \* "idle" or "done"
    tr_text,            \* its text argument (Optional)
    tr_max_length,      \* its max_length argument
    tr_suffix,          \* its suffix argument
    tr_output           \* what it returned (Optional)

xvars == <<tr_pc, tr_text, tr_max_length, tr_suffix, tr_output>>

vars == <<tvars, svars, pvars, lvars, xvars>>

(***************************************************************************)
(* The remote catalog and the values the remote calls can answer with.     *)
(***************************************************************************)
\* ToolDefinition.requirements.authorization is None or a requirement.
NoRequirements == None
NoAuthorization == Some([authorization |-> None])
OAuthRequired == Some([authorization |-> Some("oauth2")])

Catalog ==
    { [toolkit |-> "Search", name |-> "SearchGoogle", requirements |-> NoRequirements],
      [toolkit |-> "Math",   name |-> "Add",          requirements |-> NoAuthorization],
      [toolkit |-> "Gmail",  name |-> "SendEmail",    requirements |-> OAuthRequired] }

ToolkitNames == {t.toolkit : t \in Catalog}

\* f"{tool.toolkit.name}_{tool.name}"
FullToolName(t) == t.toolkit \o "_" \o t.name

\* Names a tool function can be created for: the catalog's and an unknown one.
ToolNames == {FullToolName(t) : t \in Catalog} \cup {"Unknown_Tool"}

Statuses == {"pending", "completed", "failed"}
AuthorizationIds == {None, Some(""), Some("auth_1")}
AuthUrl == Some("https://auth.example/u")

AuthorizationResponses ==
    [authorization_id : AuthorizationIds, authorization_url : {AuthUrl},
     status : {Some(s) : s \in Statuses}]

\* What client.auth.status answers: the authorization polled, or none.
StatusResponses ==
    [authorization_id : {None, Some("auth_1")}, authorization_url : {AuthUrl},
     status : {Some(s) : s \in Statuses}]

\* Seconds one client.auth.status(wait=60) call can take.
PollDurations == {30, 60}

DefaultTimeout == 120

ExecuteOutputs ==
    {None} \cup
    { Some([value |-> v, error |-> e]) :
        v \in {None, Some("result")},
        e \in {None, Some([message |-> "remote error"])} }

ExecuteResponses == [success : BOOLEAN, output : ExecuteOutputs]

(***************************************************************************)
(* Results of an invocation.                                               *)
(***************************************************************************)
NoResult == [kind |-> "none", payload |-> None]
\* a returned output value (response.output.value, which may itself be None)
Value(v) == [kind |-> "value", payload |-> v]
\* a returned (not raised) ToolExecutionError(message)
ToolExecutionError(msg) == [kind |-> "ToolExecutionError", payload |-> Some(msg)]
\* a returned AuthorizationResponse (direct wait_for_completion)
Returned(r) == [kind |-> "response", payload |-> Some(r)]
\* an exception that left the function
Raised(exc) == [kind |-> "raised", payload |-> Some(exc)]

(***************************************************************************)
(* ArcadeAuthMixin.requires_auth                                           *)
(***************************************************************************)
\* Any requirements at all counted as an authorization requirement.
requires_auth_AnyRequirements(name) ==
    IF name \notin DOMAIN self_tools THEN FALSE
    ELSE self_tools[name].requirements # None

requires_auth(name) ==
    IF name \notin DOMAIN self_tools THEN FALSE
    ELSE LET tool_def == self_tools[name] IN
         IF tool_def.requirements = None THEN FALSE
         ELSE Val(tool_def.requirements).authorization # None

(***************************************************************************)
(* BaseArcadeManager._retrieve_tool_definitions and init_tools             *)
(***************************************************************************)
\* The id client.tools.get(tool_id=...) looks a tool up by.
ToolId(t) == t.toolkit \o "." \o t.name
ToolIds == {ToolId(t) : t \in Catalog}

RECURSIVE SetToSeq(_)
SetToSeq(S) ==
    IF S = {} THEN <<>>
    ELSE LET x == CHOOSE y \in S : TRUE IN <<x>> \o SetToSeq(S \ {x})

\* client.tools.get(tool_id=tool_id)
ClientToolsGet(tool_id) == CHOOSE t \in Catalog : ToolId(t) = tool_id
\* client.tools.list(toolkit=tk)
ClientToolsList(tk) == SetToSeq({t \in Catalog : t.toolkit = tk})
\* client.tools.list()
ClientToolsListAll == SetToSeq(Catalog)

RECURSIVE ListToolkits(_)
ListToolkits(tks) ==
    IF tks = <<>> THEN <<>>
    ELSE ClientToolsList(Head(tks)) \o ListToolkits(Tail(tks))

\* all_tools of _retrieve_tool_definitions, in the order the code extends it
AllTools(tools, toolkits) ==
    IF tools # None \/ toolkits # None
    THEN (IF tools # None /\ Val(tools) # <<>>
          THEN [i \in 1..Len(Val(tools)) |-> ClientToolsGet(Val(tools)[i])]
          ELSE <<>>)
         \o
         (IF toolkits # None /\ Val(toolkits) # <<>>
          THEN ListToolkits(Val(toolkits))
          ELSE <<>>)
    ELSE ClientToolsListAll

\* tool_definitions[full_tool_name] = tool, a later tool replacing an earlier one
RECURSIVE ToolDefinitions(_)
ToolDefinitions(all_tools) ==
    IF all_tools = <<>> THEN <<>>
    ELSE LET n == Len(all_tools)
             before == ToolDefinitions(SubSeq(all_tools, 1, n - 1))
             key == FullToolName(all_tools[n])
         IN [k \in DOMAIN before \cup {key} |->
                IF k = key THEN all_tools[n] ELSE before[k]]

retrieve_tool_definitions(tools, toolkits) == ToolDefinitions(AllTools(tools, toolkits))

ToolLists == {None, Some(<<>>)} \cup {Some(<<i>>) : i \in ToolIds}
ToolkitLists == {None, Some(<<>>)} \cup {Some(<<k>>) : k \in ToolkitNames}

Resting == tf_pc \in {"idle", "done"}

\* d.update(new)
DictUpdate(d, new) ==
    [k \in DOMAIN d \cup DOMAIN new |-> IF k \in DOMAIN new THEN new[k] ELSE d[k]]

\* init_tools updating the registry instead of replacing it.
init_tools_KeepsOld(tools, toolkits) ==
    /\ Resting
    /\ UNCHANGED <<svars, pvars, lvars, xvars>>
    /\ self_tools' = DictUpdate(self_tools, retrieve_tool_definitions(tools, toolkits))
    /\ gt_call' = None
    /\ UNCHANGED authorized_before
    /\ UNCHANGED exec_response
    /\ UNCHANGED <<user_id, tf_pc, caller, tool_name, needs_auth, auth_response, timeout,
                   elapsed, auth_ret, wfc_arg, wfc_ret, wfc_exit, last_seen,
                   n_authorize, n_status, n_execute, result>>

init_tools(tools, toolkits) ==
    /\ Resting
    /\ UNCHANGED <<svars, pvars, lvars, xvars>>
    /\ self_tools' = retrieve_tool_definitions(tools, toolkits)
    /\ gt_call' = None
    /\ UNCHANGED authorized_before
    /\ UNCHANGED exec_response
    /\ UNCHANGED <<user_id, tf_pc, caller, tool_name, needs_auth, auth_response, timeout,
                   elapsed, auth_ret, wfc_arg, wfc_ret, wfc_exit, last_seen,
                   n_authorize, n_status, n_execute, result>>

(***************************************************************************)
(* BaseArcadeManager.get_tools                                             *)
(***************************************************************************)
\* wrap_tool(name, tool_def) is abstract: the framework's tool around one
\* definition, standing for whatever the subclass builds from the two.
wrap_tool(name, tool_def) == [name |-> name, tool_def |-> tool_def]

\* [self.wrap_tool(name, tool_def) for name, tool_def in self._tools.items()]
WrapAll(registry) ==
    LET names == SetToSeq(DOMAIN registry)
    IN [i \in 1..Len(names) |-> wrap_tool(names[i], registry[names[i]])]

\* The registry replaced by the new definitions instead of updated with them.
RegistryAfterGetTools_Replace(tools, toolkits) ==
    LET initialised == IF DOMAIN self_tools = {}
                       THEN retrieve_tool_definitions(tools, toolkits)
                       ELSE self_tools
    IN IF TruthySeq(tools) \/ TruthySeq(toolkits)
       THEN retrieve_tool_definitions(tools, toolkits)
       ELSE initialised

\* self._tools when get_tools reaches its return: init_tools on an empty
\* registry, then the update when tools or toolkits are given.
RegistryAfterGetTools(tools, toolkits) ==
    LET initialised == IF DOMAIN self_tools = {}
                       THEN retrieve_tool_definitions(tools, toolkits)
                       ELSE self_tools
    IN IF TruthySeq(tools) \/ TruthySeq(toolkits)
       THEN DictUpdate(initialised, retrieve_tool_definitions(tools, toolkits))
       ELSE initialised

\* One retrieval for every call, also on a registry that was not empty and
\* without arguments.
RetrievalsOfGetTools_Always(tools, toolkits) == <<[tools |-> tools, toolkits |-> toolkits]>>

\* The calls of _retrieve_tool_definitions one get_tools call makes, each with
\* its arguments: one in init_tools on an empty registry, one for the update.
RetrievalsOfGetTools(tools, toolkits) ==
    (IF DOMAIN self_tools = {}
     THEN <<[tools |-> tools, toolkits |-> toolkits]>> ELSE <<>>)
    \o (IF TruthySeq(tools) \/ TruthySeq(toolkits)
        THEN <<[tools |-> tools, toolkits |-> toolkits]>> ELSE <<>>)

get_tools(tools, toolkits) ==
    /\ Resting
    /\ UNCHANGED <<svars, pvars, lvars, xvars>>
    /\ self_tools' = RegistryAfterGetTools(tools, toolkits)
    /\ gt_call' = Some([ tools |-> tools, toolkits |-> toolkits,
                         before |-> self_tools,
                         retrievals |-> RetrievalsOfGetTools(tools, toolkits),
                         returned |-> WrapAll(RegistryAfterGetTools(tools, toolkits)) ])
    /\ UNCHANGED authorized_before
    /\ UNCHANGED <<user_id, tf_pc, caller, tool_name, needs_auth, auth_response, timeout,
                   elapsed, auth_ret, wfc_arg, wfc_ret, wfc_exit, last_seen,
                   n_authorize, n_status, n_execute, exec_response, result>>

(***************************************************************************)
(* CrewAIToolManager.create_tool_function.tool_function and                *)
(* ArcadeAuthMixin.wait_for_completion, one action per remote call.        *)
(***************************************************************************)
\* Fresh locals of an invocation.
FreshLocals ==
    /\ auth_response' = None
    /\ auth_ret' = None
    /\ wfc_arg' = None
    /\ wfc_ret' = None
    /\ wfc_exit' = "none"
    /\ last_seen' = None
    /\ elapsed' = 0
    /\ n_status' = 0
    /\ exec_response' = None
    /\ result' = NoResult

\* The invocation of the tool function that ran last ended its wait with a
\* completed authorization.
CompletedAuthorization ==
    caller = "tool_function" /\ needs_auth /\ wfc_exit = "completed"

\* An authorization completed earlier is taken as still good: no new authorize.
tool_function_ReusesAuthorization(name) ==
    /\ Resting
    /\ UNCHANGED <<svars, pvars, lvars, xvars>>
    /\ UNCHANGED gt_call
    /\ authorized_before' = (authorized_before \/ CompletedAuthorization)
    /\ caller' = "tool_function"
    /\ tool_name' = name
    /\ needs_auth' = requires_auth(name)
    /\ timeout' = DefaultTimeout
    /\ FreshLocals
    /\ IF requires_auth(name) /\ ~(authorized_before \/ CompletedAuthorization)
       THEN /\ n_authorize' = 1
            /\ n_execute' = 0
            /\ tf_pc' = "authorize"
       ELSE /\ n_authorize' = 0
            /\ n_execute' = 1
            /\ tf_pc' = "execute"
    /\ UNCHANGED <<self_tools, user_id>>

\* tool_function entered: requires_auth decides between authorize and execute.
tool_function(name) ==
    /\ Resting
    /\ UNCHANGED <<svars, pvars, lvars, xvars>>
    /\ UNCHANGED gt_call
    /\ authorized_before' = (authorized_before \/ CompletedAuthorization)
    /\ caller' = "tool_function"
    /\ tool_name' = name
    /\ needs_auth' = requires_auth(name)
    /\ timeout' = DefaultTimeout
    /\ FreshLocals
    /\ IF requires_auth(name)
       THEN /\ n_authorize' = 1
            /\ n_execute' = 0
            /\ tf_pc' = "authorize"
       ELSE /\ n_authorize' = 0
            /\ n_execute' = 1
            /\ tf_pc' = "execute"
    /\ UNCHANGED <<self_tools, user_id>>

\* AfterWait without the check of the status (a plausible slip).
AfterWait_NoStatusCheck(r) ==
    IF caller = "direct"
    THEN /\ result' = Returned(r)
         /\ tf_pc' = "done"
         /\ UNCHANGED n_execute
    ELSE /\ n_execute' = n_execute + 1
         /\ tf_pc' = "execute"
         /\ UNCHANGED result

\* What the caller of wait_for_completion does with the returned response r:
\* tool_function returns an error unless r.status is "completed", and then
\* calls execute; a direct caller just receives r.
AfterWait(r) ==
    IF caller = "direct"
    THEN /\ result' = Returned(r)
         /\ tf_pc' = "done"
         /\ UNCHANGED n_execute
    ELSE IF r.status # Some("completed")
    THEN /\ result' = ToolExecutionError(
                "Authorization failed for " \o tool_name \o ". URL: "
                \o Val(r.authorization_url))
         /\ tf_pc' = "done"
         /\ UNCHANGED n_execute
    ELSE /\ n_execute' = n_execute + 1
         /\ tf_pc' = "execute"
         /\ UNCHANGED result

\* AuthorizeReturns testing the id with "is None": an empty id goes on.
AuthorizeReturns_NoneOnly(r) ==
    /\ tf_pc = "authorize"
    /\ UNCHANGED <<svars, pvars, lvars, xvars>>
    /\ UNCHANGED <<exec_response, gt_call, authorized_before>>
    /\ auth_response' = Some(r)
    /\ auth_ret' = Some(r)
    /\ IF r.authorization_id = None
       THEN /\ result' = ToolExecutionError(
                   "Authorization failed for " \o tool_name
                   \o ": No authorization ID received")
            /\ tf_pc' = "done"
            /\ UNCHANGED <<wfc_arg, last_seen, elapsed>>
       ELSE /\ wfc_arg' = Some(r)
            /\ last_seen' = Some(r)
            /\ elapsed' = 0
            /\ tf_pc' = "wait_head"
            /\ UNCHANGED result
    /\ UNCHANGED <<self_tools, user_id, caller, tool_name, needs_auth, timeout, wfc_ret,
                   wfc_exit, n_authorize, n_status, n_execute>>

\* self.authorize(tool_name, self.user_id) returned r.
AuthorizeReturns(r) ==
    /\ tf_pc = "authorize"
    /\ UNCHANGED <<svars, pvars, lvars, xvars>>
    /\ UNCHANGED <<exec_response, gt_call, authorized_before>>
    /\ auth_response' = Some(r)
    /\ auth_ret' = Some(r)
    /\ IF ~TruthyStr(r.authorization_id)
       THEN /\ result' = ToolExecutionError(
                   "Authorization failed for " \o tool_name
                   \o ": No authorization ID received")
            /\ tf_pc' = "done"
            /\ UNCHANGED <<wfc_arg, last_seen, elapsed>>
       ELSE \* wait_for_completion(auth_response) entered: start_time = time.time()
            /\ wfc_arg' = Some(r)
            /\ last_seen' = Some(r)
            /\ elapsed' = 0
            /\ tf_pc' = "wait_head"
            /\ UNCHANGED result
    /\ UNCHANGED <<self_tools, user_id, caller, tool_name, needs_auth, timeout, wfc_ret,
                   wfc_exit, n_authorize, n_status, n_execute>>

\* client.tools.authorize raised: nothing in tool_function catches it.
AuthorizeRaises ==
    /\ tf_pc = "authorize"
    /\ UNCHANGED <<svars, pvars, lvars, xvars>>
    /\ UNCHANGED <<exec_response, gt_call, authorized_before>>
    /\ result' = Raised("APIError")
    /\ tf_pc' = "done"
    /\ UNCHANGED <<self_tools, user_id, caller, tool_name, needs_auth, auth_response, timeout,
                   elapsed, auth_ret, wfc_arg, wfc_ret, wfc_exit, last_seen,
                   n_authorize, n_status, n_execute>>

Timeouts == {-1, 60, DefaultTimeout}

\* wait_for_completion(r, timeout=t) called on its own.
wait_for_completion(r, t) ==
    /\ Resting
    /\ UNCHANGED <<svars, pvars, lvars, xvars>>
    /\ UNCHANGED <<gt_call, authorized_before>>
    /\ exec_response' = None
    /\ caller' = "direct"
    /\ timeout' = t
    /\ auth_response' = Some(r)
    /\ auth_ret' = None
    /\ wfc_arg' = Some(r)
    /\ wfc_ret' = None
    /\ wfc_exit' = "none"
    /\ last_seen' = Some(r)
    /\ elapsed' = 0
    /\ n_authorize' = 0
    /\ n_status' = 0
    /\ n_execute' = 0
    /\ result' = NoResult
    /\ tf_pc' = "wait_head"
    /\ needs_auth' = FALSE
    /\ UNCHANGED <<self_tools, user_id, tool_name>>

\* Returning the response the wait was entered with (a plausible slip).
TimeoutReturn_Initial == wfc_arg

\* The value wait_for_completion returns at the timeout check.
TimeoutReturn == auth_response

\* Head of the while loop: the timeout check, then the status call is issued.
WaitHead ==
    /\ tf_pc = "wait_head"
    /\ UNCHANGED <<svars, pvars, lvars, xvars>>
    /\ UNCHANGED <<exec_response, gt_call, authorized_before>>
    /\ IF elapsed > timeout
       THEN /\ wfc_ret' = TimeoutReturn
            /\ wfc_exit' = "timeout"
            /\ AfterWait(Val(TimeoutReturn))
            /\ UNCHANGED n_status
       ELSE /\ n_status' = n_status + 1
            /\ tf_pc' = "status"
            /\ UNCHANGED <<wfc_ret, wfc_exit, result, n_execute>>
    /\ UNCHANGED <<self_tools, user_id, caller, tool_name, needs_auth, auth_response, timeout,
                   elapsed, auth_ret, wfc_arg, last_seen, n_authorize>>

\* Returning on any final status, "failed" included.
PollCompletes_AnyFinal(r) == r.status \in {Some("completed"), Some("failed")}

\* Whether the loop returns after a poll answered r.
PollCompletes(r) == r.status = Some("completed")

\* client.auth.status(authorization_id, wait=60) returned r after d seconds.
StatusReturns(r, d) ==
    /\ tf_pc = "status"
    /\ UNCHANGED <<svars, pvars, lvars, xvars>>
    /\ UNCHANGED <<exec_response, gt_call, authorized_before>>
    /\ auth_response' = Some(r)
    /\ last_seen' = Some(r)
    /\ elapsed' = elapsed + d
    /\ IF PollCompletes(r)
       THEN /\ wfc_ret' = Some(r)
            /\ wfc_exit' = "completed"
            /\ AfterWait(r)
       ELSE /\ tf_pc' = "wait_head"
            /\ UNCHANGED <<wfc_ret, wfc_exit, result, n_execute>>
    /\ UNCHANGED <<self_tools, user_id, caller, tool_name, needs_auth, timeout, auth_ret,
                   wfc_arg, n_authorize, n_status>>

\* client.auth.status raised after d seconds: wait_for_completion has no handler.
StatusRaises(d) ==
    /\ tf_pc = "status"
    /\ UNCHANGED <<svars, pvars, lvars, xvars>>
    /\ UNCHANGED <<exec_response, gt_call, authorized_before>>
    /\ elapsed' = elapsed + d
    /\ wfc_exit' = "raised"
    /\ result' = Raised("APIError")
    /\ tf_pc' = "done"
    /\ UNCHANGED <<self_tools, user_id, caller, tool_name, needs_auth, auth_response, timeout,
                   auth_ret, wfc_arg, wfc_ret, last_seen, n_authorize, n_status,
                   n_execute>>

\* ExecuteResult without the test for a missing output: response.output.value
\* on None raises AttributeError.
ExecuteResult_NoOutputCheck(response) ==
    IF response.success
    THEN IF response.output = None
         THEN Raised("AttributeError")
         ELSE Value(Val(response.output).value)
    ELSE IF response.output # None /\ Val(response.output).error # None
         THEN ToolExecutionError(Val(Val(response.output).error).message)
         ELSE ToolExecutionError("Execution failed for " \o tool_name)

\* What tool_function returns for the response of client.tools.execute.
ExecuteResult(response) ==
    IF response.success
    THEN IF response.output = None
         THEN ToolExecutionError("No output received from " \o tool_name)
         ELSE Value(Val(response.output).value)
    ELSE IF response.output # None /\ Val(response.output).error # None
         THEN ToolExecutionError(Val(Val(response.output).error).message)
         ELSE ToolExecutionError("Execution failed for " \o tool_name)

ExecuteReturns(response) ==
    /\ tf_pc = "execute"
    /\ UNCHANGED <<svars, pvars, lvars, xvars>>
    /\ UNCHANGED <<gt_call, authorized_before>>
    /\ exec_response' = Some(response)
    /\ result' = ExecuteResult(response)
    /\ tf_pc' = "done"
    /\ UNCHANGED <<self_tools, user_id, caller, tool_name, needs_auth, auth_response, timeout,
                   elapsed, auth_ret, wfc_arg, wfc_ret, wfc_exit, last_seen,
                   n_authorize, n_status, n_execute>>

\* client.tools.execute raised: nothing in tool_function catches it.
ExecuteRaises ==
    /\ tf_pc = "execute"
    /\ UNCHANGED <<svars, pvars, lvars, xvars>>
    /\ UNCHANGED <<exec_response, gt_call, authorized_before>>
    /\ result' = Raised("APIError")
    /\ tf_pc' = "done"
    /\ UNCHANGED <<self_tools, user_id, caller, tool_name, needs_auth, auth_response, timeout,
                   elapsed, auth_ret, wfc_arg, wfc_ret, wfc_exit, last_seen,
                   n_authorize, n_status, n_execute>>

(***************************************************************************)
(* Zendesk article search: values.                                         *)
(***************************************************************************)
MAX_TOTAL_RESULTS == 1000

\* Pages a caller may ask for (max_pages ranges over -1 .. MaxPagesArg).
MaxPagesArg == 3
\* GETs of one fetch the model follows (the loop itself has no such bound).
MaxRequests == 4

\* A Python str whose characters matter is the sequence of its characters.
RECURSIVE Join(_)
Join(chars) == IF chars = <<>> THEN "" ELSE Head(chars) \o Join(Tail(chars))

Digits == {"0", "1", "2", "3", "4", "5", "6", "7", "8", "9"}

Date_2024_01_15 == <<"2", "0", "2", "4", "-", "0", "1", "-", "1", "5">>
Date_Slashes == <<"2", "0", "2", "4", "/", "0", "1", "/", "1", "5">>
Date_Short == <<"2", "0", "2", "4", "-", "1", "-", "5">>
Date_TrailingNewline == Date_2024_01_15 \o <<"\n">>

DateInputs ==
    {None, Some(<<>>), Some(Date_2024_01_15), Some(Date_Slashes), Some(Date_Short),
     Some(Date_TrailingNewline)}

\* The items of the pattern r"^\d{4}-\d{2}-\d{2}$" between "^" and "$".
DatePattern == <<"d", "d", "d", "d", "-", "d", "d", "-", "d", "d">>

MatchesItem(item, c) == IF item = "d" THEN c \in Digits ELSE c = item

\* Python's "$" (no re.MULTILINE) matches at the end of the string and also
\* just before a newline that is the last character of the string.
DollarMatchesAt(chars, i) ==
    \/ i = Len(chars) + 1
    \/ i = Len(chars) /\ chars[i] = "\n"

\* bool(re.match(pattern, date_string))
validate_date_format(date_string) ==
    /\ Len(date_string) >= Len(DatePattern)
    /\ \A i \in 1..Len(DatePattern) : MatchesItem(DatePattern[i], date_string[i])
    /\ DollarMatchesAt(date_string, Len(DatePattern) + 1)

(***************************************************************************)
(* search_articles: the calls the model makes.  A call differs from the    *)
(* baseline call in at most two arguments.                                 *)
(***************************************************************************)
Baseline ==
    [ query |-> Some("api"), label_names |-> None, category |-> None,
      section |-> None, created_after |-> None, created_before |-> None,
      created_at |-> None, sort_by |-> None, sort_order |-> None,
      per_page |-> 10, all_pages |-> FALSE, max_pages |-> None,
      include_body |-> TRUE,
      auth_token |-> Some("token"), subdomain |-> Some("acme") ]

ArgDomain ==
    [ query |-> {None, Some(""), Some("api")},
      label_names |-> {None, Some("faq")},
      category |-> {None, Some(0), Some(123)},
      section |-> {None, Some(200)},
      created_after |-> DateInputs,
      created_before |-> DateInputs,
      created_at |-> DateInputs,
      sort_by |-> {None, Some(""), Some("created_at"), Some("name")},
      sort_order |-> {None, Some(""), Some("asc"), Some("desc"), Some("up")},
      per_page |-> {10, 250},
      all_pages |-> BOOLEAN,
      max_pages |-> {None} \cup {Some(n) : n \in -1..MaxPagesArg},
      include_body |-> BOOLEAN,
      auth_token |-> {Some(""), Some("token")},
      subdomain |-> {None, Some(""), Some("acme")} ]

Deviate(S) ==
    S \cup UNION { UNION { {[a EXCEPT ![f] = v] : v \in ArgDomain[f]} :
                           f \in DOMAIN ArgDomain } : a \in S }

SearchArgs == Deviate(Deviate({Baseline}))

(***************************************************************************)
(* search_articles: validation, in the order of the code.                  *)
(***************************************************************************)
DateParamNames == <<"created_after", "created_before", "created_at">>

DateParamInvalid(a, name) ==
    TruthySeq(a[name]) /\ ~validate_date_format(Val(a[name]))

InvalidDateFormat(name, value) ==
    [ error |-> "InvalidDateFormat",
      message |-> "Invalid date format for " \o name \o ": '" \o Join(value)
                  \o "'. Please use YYYY-MM-DD format.",
      example |-> "2024-01-15" ]

InvalidSortParameter(sort_by) ==
    [ error |-> "InvalidSortParameter",
      message |-> "Invalid sort_by value: '" \o sort_by \o "'. Must be 'created_at'." ]

InvalidSortOrder(sort_order) ==
    [ error |-> "InvalidSortOrder",
      message |-> "Invalid sort_order value: '" \o sort_order
                  \o "'. Must be 'asc' or 'desc'." ]

InvalidPaginationParameter ==
    [ error |-> "InvalidPaginationParameter",
      message |-> "max_pages must be at least 1 if specified." ]

MissingSearchParameter ==
    [ error |-> "MissingSearchParameter",
      message |-> "At least one of query, category, section, or label_names must be provided." ]

AuthenticationError ==
    [ error |-> "AuthenticationError",
      message |-> "No authentication token found. Please authenticate with Zendesk first." ]

ConfigurationError ==
    [ error |-> "ConfigurationError",
      message |-> "Zendesk subdomain not found in secrets. Please configure ZENDESK_SUBDOMAIN." ]

\* The date loop: the error of the first date parameter that fails, or None.
DateError(a) ==
    IF \E i \in 1..3 : DateParamInvalid(a, DateParamNames[i])
    THEN LET i == CHOOSE j \in 1..3 :
                    /\ DateParamInvalid(a, DateParamNames[j])
                    /\ \A k \in 1..(j - 1) : ~DateParamInvalid(a, DateParamNames[k])
         IN Some(InvalidDateFormat(DateParamNames[i], Val(a[DateParamNames[i]])))
    ELSE None

SortByInvalid(a) == TruthyStr(a.sort_by) /\ Val(a.sort_by) \notin {"created_at"}
SortOrderInvalid(a) == TruthyStr(a.sort_order) /\ Val(a.sort_order) \notin {"asc", "desc"}
\* Off by one: max_pages = 0 accepted.
MaxPagesInvalid_AllowsZero(a) == a.max_pages # None /\ Val(a.max_pages) < 0
MaxPagesInvalid(a) == a.max_pages # None /\ Val(a.max_pages) < 1
\* not any([query, category, section, label_names])
NoSearchParameter(a) ==
    ~(\/ TruthyStr(a.query) \/ TruthyInt(a.category)
      \/ TruthyInt(a.section) \/ TruthyStr(a.label_names))

\* Everything search_articles checks before it opens the HTTP client: the
\* mapping of the first check that fails, or None.
ValidationError(a) ==
    IF DateError(a) # None THEN DateError(a)
    ELSE IF SortByInvalid(a) THEN Some(InvalidSortParameter(Val(a.sort_by)))
    ELSE IF SortOrderInvalid(a) THEN Some(InvalidSortOrder(Val(a.sort_order)))
    ELSE IF MaxPagesInvalid(a) THEN Some(InvalidPaginationParameter)
    ELSE IF NoSearchParameter(a) THEN Some(MissingSearchParameter)
    ELSE IF ~TruthyStr(a.auth_token) THEN Some(AuthenticationError)
    ELSE IF ~TruthyStr(a.subdomain) THEN Some(ConfigurationError)
    ELSE None

\* d[k] = v on a Python dict
SetKey(d, k, v) == [x \in DOMAIN d \cup {k} |-> IF x = k THEN v ELSE d[x]]

EmptyDict == [x \in {} |-> None]

\* The optional entries of params, in the order the code adds them.
OptionalParams ==
    << <<"query", "str">>, <<"label_names", "str">>, <<"category", "int">>,
       <<"section", "int">>, <<"created_after", "seq">>, <<"created_before", "seq">>,
       <<"created_at", "seq">>, <<"sort_by", "str">>, <<"sort_order", "str">> >>

Truthy(o, type) ==
    IF type = "str" THEN TruthyStr(o)
    ELSE IF type = "int" THEN TruthyInt(o)
    ELSE TruthySeq(o)

RECURSIVE AddOptionalParams(_, _, _)
AddOptionalParams(d, a, i) ==
    IF i > Len(OptionalParams) THEN d
    ELSE LET k == OptionalParams[i][1]
         IN AddOptionalParams(
                IF Truthy(a[k], OptionalParams[i][2]) THEN SetKey(d, k, Val(a[k])) ELSE d,
                a, i + 1)

\* params as search_articles builds it
BuildParams(a) ==
    AddOptionalParams([per_page |-> Min(a.per_page, 100), page |-> 1], a, 1)

\* Without the single-page default: no max_pages means every page.
PagesToFetch_DefaultAll(a) ==
    IF a.all_pages THEN None
    ELSE IF a.max_pages # None THEN a.max_pages
    ELSE None

\* pages_to_fetch
PagesToFetch(a) ==
    IF a.all_pages THEN None
    ELSE IF a.max_pages # None THEN a.max_pages
    ELSE Some(1)

(***************************************************************************)
(* fetch_all_pages                                                         *)
(***************************************************************************)
\* The "results" of the k-th response stand for n records: a chunk.
Chunk(k, n) == [response |-> k, n |-> n]

RECURSIVE TotalLen(_)
\* len(all_results)
TotalLen(chunks) ==
    IF chunks = <<>> THEN 0 ELSE Head(chunks).n + TotalLen(Tail(chunks))

\* Numbers of records one response can carry ("results" may also be absent).
PageSizes == {0, 500, 600}
ResultsOptions == {None} \cup {Some(n) : n \in PageSizes}
\* "next_page": absent, null, or the URL of a further page.
NextPageOptions == {"absent", "null", "url"}

\* http_response.json() of the k-th response
PageData(k, res, nxt) ==
    [ key \in (IF res = None THEN {} ELSE {"results"})
              \cup (IF nxt = "absent" THEN {} ELSE {"next_page"}) |->
        IF key = "results" THEN Chunk(k, Val(res))
        ELSE IF nxt = "null" THEN None ELSE Some("https://acme.zendesk.com/next") ]

\* What makes a GET fail: raise_for_status, a timeout, anything else.
Failures ==
    { [type |-> "HTTPStatusError", status_code |-> Some(500)],
      [type |-> "HTTPStatusError", status_code |-> Some(429)],
      [type |-> "TimeoutException", status_code |-> None],
      [type |-> "ConnectError", status_code |-> None] }

\* Off by one: one page more than asked for.
MaxPagesReached_Strict(mp, fetched) == TruthyInt(mp) /\ fetched > Val(mp)
\* Off by one: the cap itself does not stop the loop.
ResultLimitReached_Strict(results) == TotalLen(results) > MAX_TOTAL_RESULTS
\* Only an absent key ends the loop, a null next_page does not.
NoNextPage_KeyOnly(page_data) == "next_page" \notin DOMAIN page_data

\* The cap is tested against None instead of for truth: a cap of 0 stops the loop.
MaxPagesReached_NotNone(mp, fetched) == mp # None /\ fetched >= Val(mp)

\* if max_pages and pages_fetched >= max_pages
MaxPagesReached(mp, fetched) == TruthyInt(mp) /\ fetched >= Val(mp)
\* if len(all_results) >= MAX_TOTAL_RESULTS
ResultLimitReached(results) == TotalLen(results) >= MAX_TOTAL_RESULTS
\* if page_data.get("next_page") is None
NoNextPage(page_data) ==
    "next_page" \notin DOMAIN page_data \/ page_data["next_page"] = None

\* The three breaks of the loop, after a page was added.
LoopBreaks(mp, fetched, results, page_data) ==
    \/ MaxPagesReached(mp, fetched)
    \/ ResultLimitReached(results)
    \/ NoNextPage(page_data)

ResultLimitWarning ==
    [ type |-> "ResultLimitReached",
      message |-> "Result limit of " \o ToString(MAX_TOTAL_RESULTS)
                  \o " reached. Use more specific filters to narrow your search.",
      suggestion |-> "Try adding filters like category, section, or date ranges to get more targeted results." ]

\* The warning is attached only when the cap was exceeded, not when it was met.
FetchResponse_Strict(results) ==
    IF TotalLen(results) > MAX_TOTAL_RESULTS
    THEN [results |-> results, warnings |-> <<ResultLimitWarning>>]
    ELSE [results |-> results]

\* The mapping fetch_all_pages returns.
FetchResponse(results) ==
    IF TotalLen(results) >= MAX_TOTAL_RESULTS
    THEN [results |-> results, warnings |-> <<ResultLimitWarning>>]
    ELSE [results |-> results]

\* process_search_results on a chunk: every record becomes {content, metadata},
\* the content kept only with include_body.
ProcessChunk(c, include_body) ==
    [response |-> c.response, n |-> c.n, shape |-> "content+metadata",
     with_content |-> include_body]

process_search_results(results, include_body) ==
    [i \in 1..Len(results) |-> ProcessChunk(results[i], include_body)]

\* a mapping returned to the caller
Mapping(m) == [kind |-> "mapping", payload |-> Some(m)]

\* Without the handler of httpx.TimeoutException: a timeout falls through to
\* the handler of Exception.
SearchFailure_NoTimeoutClause(exc, url_params) ==
    IF exc.type = "HTTPStatusError"
    THEN [ error |-> "HTTP " \o ToString(Val(exc.status_code)),
           message |-> "Failed to search articles: <response text>",
           params |-> url_params ]
    ELSE [ error |-> "SearchError",
           message |-> "Failed to search articles: " \o exc.type,
           params |-> url_params ]

\* What search_articles returns when fetch_all_pages raised exc.
SearchFailure(exc, url_params) ==
    IF exc.type = "HTTPStatusError"
    THEN [ error |-> "HTTP " \o ToString(Val(exc.status_code)),
           message |-> "Failed to search articles: <response text>",
           params |-> url_params ]
    ELSE IF exc.type = "TimeoutException"
    THEN [ error |-> "TimeoutError",
           message |-> "Request timed out while searching articles. Try reducing per_page or using more specific filters.",
           params |-> url_params ]
    ELSE [ error |-> "SearchError",
           message |-> "Failed to search articles: " \o exc.type,
           params |-> url_params ]

\* A call owns its accumulator and its params mapping and leaves nothing behind
\* for the next one: a behaviour follows one call.
SearchResting == s_pc = "idle"

\* Two GETs sent at once, the second before the first was answered.
FetchEnter_Prefetch(p, mp) ==
    LET page == IF "page" \in DOMAIN p THEN p["page"] ELSE 1 IN
    /\ max_pages' = mp
    /\ all_results' = <<>>
    /\ current_page' = page
    /\ pages_fetched' = 0
    /\ params' = SetKey(p, "page", page)
    /\ supplied' = p
    /\ requests' = <<page, page + 1>>
    /\ responses' = <<>>
    /\ failure' = None
    /\ s_result' = NoResult
    /\ s_pc' = "request"

\* fetch_all_pages entered with params p and max_pages mp, up to its first GET.
FetchEnter_IgnoresPage(p, mp) ==
    /\ max_pages' = mp
    /\ all_results' = <<>>
    /\ current_page' = 1
    /\ pages_fetched' = 0
    /\ params' = SetKey(p, "page", 1)
    /\ supplied' = p
    /\ requests' = <<1>>
    /\ responses' = <<>>
    /\ failure' = None
    /\ s_result' = NoResult
    /\ s_pc' = "request"

FetchEnter(p, mp) ==
    LET page == IF "page" \in DOMAIN p THEN p["page"] ELSE 1 IN
    /\ max_pages' = mp
    /\ all_results' = <<>>
    /\ current_page' = page
    /\ pages_fetched' = 0
    /\ params' = SetKey(p, "page", page)
    /\ supplied' = p
    /\ requests' = <<page>>
    /\ responses' = <<>>
    /\ failure' = None
    /\ s_result' = NoResult
    /\ s_pc' = "request"

FetchParams == {EmptyDict, [page |-> 1], [page |-> 3], [query |-> "test"]}
FetchMaxPages == {None} \cup {Some(n) : n \in -1..MaxPagesArg}

\* fetch_all_pages(client, url, headers, p, max_pages=mp) called on its own.
fetch_all_pages(p, mp) ==
    /\ SearchResting
    /\ UNCHANGED <<tvars, pvars, lvars, xvars>>
    /\ s_caller' = "fetch_all_pages"
    /\ UNCHANGED args
    /\ FetchEnter(p, mp)

search_articles(a) ==
    /\ SearchResting
    /\ UNCHANGED <<tvars, pvars, lvars, xvars>>
    /\ s_caller' = "search_articles"
    /\ args' = a
    /\ IF ValidationError(a) # None
       THEN /\ s_result' = Mapping(Val(ValidationError(a)))
            /\ s_pc' = "done"
            /\ params' = EmptyDict
            /\ supplied' = EmptyDict
            /\ max_pages' = None
            /\ all_results' = <<>>
            /\ current_page' = 1
            /\ pages_fetched' = 0
            /\ requests' = <<>>
            /\ responses' = <<>>
            /\ failure' = None
       ELSE FetchEnter(BuildParams(a), PagesToFetch(a))

\* The k-th GET returned page_data: the rest of the loop body, then either the
\* return (in search_articles: the results processed) or the next GET.
\* The page number travels in a copy: the caller's params is left alone.
GetReturns_LocalPage(res, nxt) ==
    /\ s_pc = "request"
    /\ UNCHANGED <<tvars, pvars, lvars, xvars>>
    /\ LET page_data == PageData(Len(requests), res, nxt)
           extended == IF "results" \in DOMAIN page_data
                       THEN all_results \o <<page_data["results"]>>
                       ELSE all_results
           fetched == pages_fetched + 1
       IN /\ all_results' = extended
          /\ pages_fetched' = fetched
          /\ responses' = Append(responses, page_data)
          /\ IF LoopBreaks(max_pages, fetched, extended, page_data)
             THEN /\ s_result' =
                        IF s_caller = "search_articles"
                        THEN Mapping([FetchResponse(extended) EXCEPT !["results"] =
                                 process_search_results(@, args.include_body)])
                        ELSE Mapping(FetchResponse(extended))
                  /\ s_pc' = "done"
                  /\ UNCHANGED <<current_page, params, requests>>
             ELSE /\ Len(requests) < MaxRequests
                  /\ current_page' = current_page + 1
                  /\ UNCHANGED params
                  /\ requests' = Append(requests, current_page + 1)
                  /\ UNCHANGED <<s_result, s_pc>>
    /\ UNCHANGED <<s_caller, args, supplied, max_pages, failure>>

GetReturns(res, nxt) ==
    /\ s_pc = "request"
    /\ UNCHANGED <<tvars, pvars, lvars, xvars>>
    /\ LET page_data == PageData(Len(requests), res, nxt)
           extended == IF "results" \in DOMAIN page_data
                       THEN all_results \o <<page_data["results"]>>
                       ELSE all_results
           fetched == pages_fetched + 1
       IN /\ all_results' = extended
          /\ pages_fetched' = fetched
          /\ responses' = Append(responses, page_data)
          /\ IF LoopBreaks(max_pages, fetched, extended, page_data)
             THEN /\ s_result' =
                        IF s_caller = "search_articles"
                        THEN Mapping([FetchResponse(extended) EXCEPT !["results"] =
                                 process_search_results(@, args.include_body)])
                        ELSE Mapping(FetchResponse(extended))
                  /\ s_pc' = "done"
                  /\ UNCHANGED <<current_page, params, requests>>
             ELSE /\ Len(requests) < MaxRequests
                  /\ current_page' = current_page + 1
                  /\ params' = SetKey(params, "page", current_page + 1)
                  /\ requests' = Append(requests, current_page + 1)
                  /\ UNCHANGED <<s_result, s_pc>>
    /\ UNCHANGED <<s_caller, args, supplied, max_pages, failure>>

\* The outstanding GET failed with exc: fetch_all_pages lets it through,
\* search_articles turns it into an error mapping.
GetFails(exc) ==
    /\ s_pc = "request"
    /\ UNCHANGED <<tvars, pvars, lvars, xvars>>
    /\ s_result' = IF s_caller = "search_articles"
                   THEN Mapping(SearchFailure(exc, params))
                   ELSE Raised(exc)
    /\ s_pc' = "done"
    /\ failure' = Some(exc)
    /\ UNCHANGED <<s_caller, args, params, supplied, max_pages, all_results,
                   current_page, pages_fetched, requests, responses>>

(***************************************************************************)
(* The pagination loop for runs of any length.  The three break tests read *)
(* max_pages, pages_fetched, len(all_results) and the response's next_page *)
(* only, so the loop is followed on these alone; pages_fetched stops       *)
(* counting at MaxCounted, above every page cap in FetchMaxPages, where    *)
(* counting on changes no test.  Every GET succeeds.                       *)
(***************************************************************************)
MaxCounted == MaxPagesArg + 1

\* fetch_all_pages(client, url, headers, params, max_pages=mp), up to the first GET
LoopEnter(mp) ==
    /\ lp_pc = "idle"
    /\ UNCHANGED <<tvars, svars, pvars, xvars>>
    /\ lp_max_pages' = mp
    /\ lp_pages_fetched' = 0
    /\ lp_len' = 0
    /\ lp_page_data' = None
    /\ lp_pc' = "get"

\* The outstanding GET succeeds with some page.
LoopGet(res, nxt) ==
    /\ lp_pc = "get"
    /\ UNCHANGED <<tvars, svars, pvars, xvars>>
    /\ lp_page_data' = Some(PageData(1, res, nxt))
    /\ lp_pc' = "body"
    /\ UNCHANGED <<lp_max_pages, lp_pages_fetched, lp_len>>

\* The rest of the loop body: extend, count, the three breaks, the next GET.
LoopBody ==
    /\ lp_pc = "body"
    /\ UNCHANGED <<tvars, svars, pvars, xvars>>
    /\ LET page_data == Val(lp_page_data)
           length == lp_len + (IF "results" \in DOMAIN page_data
                               THEN page_data["results"].n ELSE 0)
           fetched == Min(lp_pages_fetched + 1, MaxCounted)
       IN /\ lp_len' = length
          /\ lp_pages_fetched' = fetched
          /\ lp_pc' = IF LoopBreaks(lp_max_pages, fetched, <<Chunk(1, length)>>, page_data)
                      THEN "returned" ELSE "get"
    /\ lp_page_data' = None
    /\ UNCHANGED lp_max_pages

(***************************************************************************)
(* Article bodies: clean_html_text, truncate_text, process_article_body    *)
(* and process_search_results.  A text is the sequence of its characters;  *)
(* a tag counts as one item of the sequence and a text holds no character  *)
(* references.                                                             *)
(***************************************************************************)
DEFAULT_MAX_BODY_LENGTH == 500

Tags == {"<p>", "</p>", "<br>"}
Whitespace == {" ", "\n", "\t"}

\* The text nodes of a document: the runs of characters between tags.
RECURSIVE TextNodes(_, _)
TextNodes(text, node) ==
    IF text = <<>> THEN (IF node = <<>> THEN <<>> ELSE <<node>>)
    ELSE IF Head(text) \in Tags
         THEN (IF node = <<>> THEN <<>> ELSE <<node>>) \o TextNodes(Tail(text), <<>>)
         ELSE TextNodes(Tail(text), Append(node, Head(text)))

\* soup.get_text(separator=" ")
RECURSIVE get_text(_)
get_text(nodes) ==
    IF nodes = <<>> THEN <<>>
    ELSE IF Len(nodes) = 1 THEN nodes[1]
    ELSE nodes[1] \o <<" ">> \o get_text(Tail(nodes))

\* re.sub(r"\n+", "\n", text)
RECURSIVE SquashNewlines(_)
SquashNewlines(text) ==
    IF Len(text) < 2 THEN text
    ELSE IF text[1] = "\n" /\ text[2] = "\n" THEN SquashNewlines(Tail(text))
    ELSE <<text[1]>> \o SquashNewlines(Tail(text))

\* re.sub(r"\s+", " ", text)
RECURSIVE SquashWhitespace(_)
SquashWhitespace(text) ==
    IF text = <<>> THEN <<>>
    ELSE IF text[1] \in Whitespace
         THEN IF Len(text) >= 2 /\ text[2] \in Whitespace
              THEN SquashWhitespace(Tail(text))
              ELSE <<" ">> \o SquashWhitespace(Tail(text))
         ELSE <<text[1]>> \o SquashWhitespace(Tail(text))

\* str.lstrip / str.rstrip / str.strip
RECURSIVE LStrip(_)
LStrip(text) ==
    IF text # <<>> /\ text[1] \in Whitespace THEN LStrip(Tail(text)) ELSE text

RECURSIVE RStrip(_)
RStrip(text) ==
    IF text # <<>> /\ text[Len(text)] \in Whitespace
    THEN RStrip(SubSeq(text, 1, Len(text) - 1))
    ELSE text

Strip(text) == RStrip(LStrip(text))

\* text.split("\n"): the lines of a text
RECURSIVE SplitLines(_, _)
SplitLines(text, line) ==
    IF text = <<>> THEN <<line>>
    ELSE IF Head(text) = "\n" THEN <<line>> \o SplitLines(Tail(text), <<>>)
    ELSE SplitLines(Tail(text), Append(line, Head(text)))

\* "\n".join(line.strip() for line in lines)
RECURSIVE JoinStripped(_)
JoinStripped(lines) ==
    IF Len(lines) = 1 THEN Strip(lines[1])
    ELSE Strip(lines[1]) \o <<"\n">> \o JoinStripped(Tail(lines))

clean_html_text(text) ==
    IF ~TruthySeq(text) THEN <<>>
    ELSE Strip(JoinStripped(SplitLines(
             SquashWhitespace(SquashNewlines(get_text(TextNodes(Val(text), <<>>)))),
             <<>>)))

\* " ... [truncated]"
TruncationSuffix ==
    <<" ", ".", ".", ".", " ", "[", "t", "r", "u", "n", "c", "a", "t", "e", "d", "]">>

\* text[:n] for n > 0
Prefix(text, n) == SubSeq(text, 1, Min(n, Len(text)))

\* The suffix length is not taken off the budget.
truncate_text_NoBudget(text, max_length, suffix) ==
    IF ~TruthySeq(text) \/ Len(Val(text)) <= max_length THEN text
    ELSE IF max_length - Len(suffix) <= 0 THEN Some(suffix)
    ELSE Some(Prefix(Val(text), max_length) \o suffix)

\* truncate_text(text, max_length, suffix); text is Optional
truncate_text(text, max_length, suffix) ==
    IF ~TruthySeq(text) \/ Len(Val(text)) <= max_length THEN text
    ELSE LET truncate_at == max_length - Len(suffix) IN
         IF truncate_at <= 0 THEN Some(suffix)
         ELSE Some(Prefix(Val(text), truncate_at) \o suffix)

process_article_body(body, max_length) ==
    IF ~TruthySeq(body) THEN None
    ELSE LET cleaned_text == clean_html_text(body) IN
         IF TruthyInt(max_length) /\ Len(cleaned_text) > Val(max_length)
         THEN truncate_text(Some(cleaned_text), Val(max_length), TruncationSuffix)
         ELSE Some(cleaned_text)

\* result.get("body", "")
BodyOf(record) == IF "body" \in DOMAIN record THEN record["body"] ELSE Some(<<>>)

\* The metadata loop without its test of the key: the body stays in.
MetadataOf_KeepsBody(record) == record

\* {key: value for key, value in result.items() if key != "body"}
MetadataOf(record) == [key \in DOMAIN record \ {"body"} |-> record[key]]

\* One turn of the loop of process_search_results.
ProcessRecord(record, include_body, max_body_length) ==
    [ content |-> IF include_body /\ TruthySeq(BodyOf(record))
                  THEN process_article_body(BodyOf(record), max_body_length)
                  ELSE None,
      metadata |-> MetadataOf(record) ]

\* process_search_results(results, include_body, max_body_length) on records
ProcessRecords(results, include_body, max_body_length) ==
    [i \in 1..Len(results) |-> ProcessRecord(results[i], include_body, max_body_length)]

\* Bodies a record may carry: null, empty, plain, markup, markup only, long.
LongBody == [i \in 1..20 |-> "x"]
Bodies ==
    { None, Some(<<>>), Some(<<"a">>),
      Some(<<"<p>", "a", " ", "\n", "b", "</p>", "<p>", "c", "</p>">>),
      Some(<<"<p>", "</p>">>),
      Some(LongBody) }

\* Raw records: an id and a title, with or without a body; a body alone.
Records ==
    { [id |-> Some(i), title |-> Some("T")] : i \in {1, 2} }
    \cup { [id |-> Some(i), title |-> Some("T"), body |-> b] : i \in {1, 2}, b \in Bodies }
    \cup { [body |-> Some(<<"a">>)] }

\* Longest results list the model processes.
MaxRecords == 2

ResultLists == UNION { [1..n -> Records] : n \in 0..MaxRecords }

MaxBodyLengths == {None, Some(0), Some(3), Some(18), Some(DEFAULT_MAX_BODY_LENGTH)}

process_search_results_call(results, include_body, max_body_length) ==
    /\ p_pc = "idle"
    /\ UNCHANGED <<tvars, svars, lvars, xvars>>
    /\ p_results' = results
    /\ p_include_body' = include_body
    /\ p_max_body_length' = max_body_length
    /\ p_output' = ProcessRecords(results, include_body, max_body_length)
    /\ p_pc' = "done"

\* Texts, lengths and suffixes truncate_text is called with.
MaxTextLen == 20
Alphabet ==
    <<"a", "b", "c", "d", "e", "f", "g", "h", "i", "j", "k", "l", "m",
      "n", "o", "p", "q", "r", "s", "t", "u", "v", "w", "x", "y", "z">>
Texts == {None} \cup {Some(SubSeq(Alphabet, 1, n)) : n \in 0..MaxTextLen}
MaxLengths == -1..(MaxTextLen + 1)
Suffixes == {<<>>, <<"~">>, <<".", ".", ".">>, TruncationSuffix}

\* truncate_text(text, max_length, suffix) called on its own
truncate_text_call(text, max_length, suffix) ==
    /\ tr_pc = "idle"
    /\ UNCHANGED <<tvars, svars, pvars, lvars>>
    /\ tr_text' = text
    /\ tr_max_length' = max_length
    /\ tr_suffix' = suffix
    /\ tr_output' = truncate_text(text, max_length, suffix)
    /\ tr_pc' = "done"

(***************************************************************************)
(* Specifications.                                                         *)
(***************************************************************************)
\* User ids a CrewAIToolManager may be constructed with.
UserIds == {None, Some(""), Some("test_user")}

\* Rejecting only a missing user id, not an empty one.
UserIdRejected_NoneOnly(uid) == uid = None

\* if not user_id: raise ValueError(...)
UserIdRejected(uid) == ~TruthyStr(uid)

\* The state after CrewAIToolManager(client, user_id=uid): a manager with an empty
\* registry, or no manager at all when __init__ raised ValueError.
Constructed(uid) ==
    /\ self_tools = <<>>
    /\ user_id = uid
    /\ IF UserIdRejected(uid)
       THEN tf_pc = "no_manager" /\ caller = "__init__" /\ result = Raised("ValueError")
       ELSE tf_pc = "idle" /\ caller = "tool_function" /\ result = NoResult
    /\ tool_name = "Unknown_Tool"
    /\ needs_auth = FALSE
    /\ auth_response = None
    /\ timeout = DefaultTimeout
    /\ elapsed = 0
    /\ auth_ret = None
    /\ wfc_arg = None
    /\ wfc_ret = None
    /\ wfc_exit = "none"
    /\ last_seen = None
    /\ n_authorize = 0
    /\ n_status = 0
    /\ n_execute = 0
    /\ exec_response = None
    /\ gt_call = None
    /\ authorized_before = FALSE

InitTool == Constructed(Some("test_user"))

InitSearch ==
    /\ s_pc = "idle"
    /\ s_caller = "fetch_all_pages"
    /\ args = Baseline
    /\ params = EmptyDict
    /\ supplied = EmptyDict
    /\ max_pages = None
    /\ all_results = <<>>
    /\ current_page = 1
    /\ pages_fetched = 0
    /\ requests = <<>>
    /\ responses = <<>>
    /\ failure = None
    /\ s_result = NoResult

InitProcess ==
    /\ p_pc = "idle"
    /\ p_results = <<>>
    /\ p_include_body = FALSE
    /\ p_max_body_length = Some(DEFAULT_MAX_BODY_LENGTH)
    /\ p_output = <<>>

InitLoop ==
    /\ lp_pc = "idle"
    /\ lp_max_pages = None
    /\ lp_pages_fetched = 0
    /\ lp_len = 0
    /\ lp_page_data = None

InitTruncate ==
    /\ tr_pc = "idle"
    /\ tr_text = None
    /\ tr_max_length = DEFAULT_MAX_BODY_LENGTH
    /\ tr_suffix = TruncationSuffix
    /\ tr_output = None

Init == InitTool /\ InitSearch /\ InitProcess /\ InitLoop /\ InitTruncate

NextTool ==
    \/ \E tools \in ToolLists, toolkits \in ToolkitLists : init_tools(tools, toolkits)
    \/ \E name \in ToolNames : tool_function(name)
    \/ \E r \in AuthorizationResponses : AuthorizeReturns(r)
    \/ AuthorizeRaises
    \/ \E r \in StatusResponses, t \in Timeouts : wait_for_completion(r, t)
    \/ WaitHead
    \/ \E r \in StatusResponses, d \in PollDurations : StatusReturns(r, d)
    \/ \E d \in PollDurations : StatusRaises(d)
    \/ \E response \in ExecuteResponses : ExecuteReturns(response)
    \/ ExecuteRaises

\* A manager constructed with any user id.
InitAnyUser ==
    /\ \E uid \in UserIds : Constructed(uid)
    /\ InitSearch /\ InitProcess /\ InitLoop /\ InitTruncate

SpecTool == InitAnyUser /\ [][NextTool]_vars

\* The registry operations of a manager.
NextManager ==
    \/ \E tools \in ToolLists, toolkits \in ToolkitLists : init_tools(tools, toolkits)
    \/ \E tools \in ToolLists, toolkits \in ToolkitLists : get_tools(tools, toolkits)

SpecManager == Init /\ [][NextManager]_vars

NextFetch ==
    \/ \E p \in FetchParams, mp \in FetchMaxPages : fetch_all_pages(p, mp)
    \/ \E res \in ResultsOptions, nxt \in NextPageOptions : GetReturns(res, nxt)
    \/ \E exc \in Failures : GetFails(exc)

SpecFetch == Init /\ [][NextFetch]_vars

NextSearch ==
    \/ \E a \in SearchArgs : search_articles(a)
    \/ \E res \in ResultsOptions, nxt \in NextPageOptions : GetReturns(res, nxt)
    \/ \E exc \in Failures : GetFails(exc)

SpecSearch == Init /\ [][NextSearch]_vars

NextProcess ==
    \E results \in ResultLists, include_body \in BOOLEAN,
       max_body_length \in MaxBodyLengths :
        process_search_results_call(results, include_body, max_body_length)

SpecProcess == Init /\ [][NextProcess]_vars

\* truncate_text on its own.
NextTruncate ==
    \E text \in Texts, max_length \in MaxLengths, suffix \in Suffixes :
        truncate_text_call(text, max_length, suffix)

SpecTruncate == Init /\ [][NextTruncate]_vars

\* The pagination loop with every GET answered: a GET that is outstanding is
\* answered in the end, by whatever page the server chooses, and the loop body
\* runs once the answer is there.
NextLoop ==
    \/ \E mp \in FetchMaxPages : LoopEnter(mp)
    \/ \E res \in ResultsOptions, nxt \in NextPageOptions : LoopGet(res, nxt)
    \/ LoopBody

SpecLoop ==
    /\ Init
    /\ [][NextLoop]_vars
    /\ WF_vars(\E res \in ResultsOptions, nxt \in NextPageOptions : LoopGet(res, nxt))
    /\ WF_vars(LoopBody)

\* fetch_all_pages called on its own or from search_articles.
NextZendesk ==
    \/ \E p \in FetchParams, mp \in FetchMaxPages : fetch_all_pages(p, mp)
    \/ \E a \in SearchArgs : search_articles(a)
    \/ \E res \in ResultsOptions, nxt \in NextPageOptions : GetReturns(res, nxt)
    \/ \E exc \in Failures : GetFails(exc)

SpecZendesk == Init /\ [][NextZendesk]_vars

(***************************************************************************)
(* Properties of the tool function and of the authorization wait.          *)
(***************************************************************************)
InToolFunction == caller = "tool_function" /\ tf_pc # "idle"

Completed(o) == o # None /\ Val(o).status = Some("completed")

\* C1: in an invocation of the tool function for a tool that requires
\* authorization, client.tools.execute is called only after authorize returned
\* a non-empty authorization_id and wait_for_completion then returned a
\* response whose status is "completed"; in every other outcome of the
\* authorization steps execute is not called at all (and it is called at
\* most once).
C1_ExecuteOnlyAfterCompletedAuthorization ==
    (InToolFunction /\ needs_auth) =>
        /\ n_authorize = 1
        /\ n_execute <= 1
        /\ n_execute = 1 <=>
              /\ auth_ret # None
              /\ TruthyStr(Val(auth_ret).authorization_id)
              /\ wfc_exit # "none"
              /\ Completed(wfc_ret)

\* C1 witness: execute was called after a completed authorization.
C1_Witness ==
    /\ InToolFunction /\ needs_auth
    /\ n_execute = 1
    /\ n_status >= 2
    /\ Completed(wfc_ret)

\* C1 witness of the other outcome: the wait timed out and execute was not called.
C1_WitnessRefused ==
    /\ InToolFunction /\ needs_auth
    /\ tf_pc = "done" /\ wfc_exit = "timeout" /\ n_execute = 0

\* C2: the tool function never raises to its caller: every invocation ends by
\* returning the unwrapped output value or a ToolExecutionError, also when a
\* remote call (authorize, auth.status, execute) itself fails.
C2_NeverRaises ==
    (InToolFunction /\ tf_pc = "done") =>
        result.kind \in {"value", "ToolExecutionError"}

C9_WitnessNoPoll == wfc_exit = "timeout" /\ n_status = 0

\* C10: as the docstring of wait_for_completion states, it raises TimeoutError
\* when the authorization takes longer than the timeout, and every response
\* it returns has status "completed".
C10_DocstringContract ==
    /\ wfc_exit = "timeout" => result = Raised("TimeoutError")
    /\ wfc_ret # None => Completed(wfc_ret)

(***************************************************************************)
(* Properties of fetch_all_pages.                                          *)
(***************************************************************************)
FetchStarted == s_pc # "idle"
FetchReturned == s_pc = "done" /\ s_result.kind = "mapping"

\* The mapping fetch_all_pages returned (before any processing).
Returns(key) == FetchReturned /\ key \in DOMAIN Val(s_result.payload)

\* A response that names no further page: next_page absent or null.
LacksNextPage(page_data) ==
    \/ "next_page" \notin DOMAIN page_data
    \/ page_data["next_page"] = None

AllIndicateNextPage == \A i \in 1..Len(responses) : ~LacksNextPage(responses[i])

\* Records carried by the first k responses.
RECURSIVE Received(_)
Received(k) ==
    IF k = 0 THEN 0
    ELSE Received(k - 1)
         + (IF "results" \in DOMAIN responses[k] THEN responses[k]["results"].n ELSE 0)

\* C3: the number of accumulated results never exceeds the global cap
\* MAX_TOTAL_RESULTS (1000): after every fetched page, and in the returned
\* mapping, len(results) <= 1000, for every sequence of page responses.
C3_ResultsNeverExceedCap ==
    /\ TotalLen(all_results) <= 1000
    /\ Returns("results") => TotalLen(Val(s_result.payload)["results"]) <= 1000

\* C4: once the accumulated result count has reached the global cap (1000)
\* after a page, no further request is issued, even if that page indicated a
\* next page, and the returned mapping has a "warnings" entry of type
\* ResultLimitReached that names the limit.
C4_CapStopsFetchAndWarns ==
    (FetchStarted /\ Received(Len(responses)) >= 1000) =>
        /\ s_pc = "done"
        /\ Len(requests) = Len(responses)
        /\ Returns("warnings")
        /\ Len(Val(s_result.payload)["warnings"]) = 1
        /\ Val(s_result.payload)["warnings"][1].type = "ResultLimitReached"
        /\ Val(s_result.payload)["warnings"][1].message =
             "Result limit of 1000 reached. Use more specific filters to narrow your search."

\* C4 witness: the cap was reached exactly, by a page that named a next page,
\* with no page cap in force.
C4_Witness ==
    /\ FetchReturned
    /\ max_pages = None
    /\ Received(Len(responses)) = 1000
    /\ AllIndicateNextPage
    /\ Returns("warnings")

\* C5: if the first response has no next-page indicator (next_page absent or
\* null), exactly one request is issued, whatever max_pages is.
C5_NoNextPageOneRequest ==
    (FetchStarted /\ Len(responses) >= 1 /\ LacksNextPage(responses[1])) =>
        /\ s_pc = "done"
        /\ Len(requests) = 1
        /\ Len(responses) = 1

\* C5 witness: a null next_page under a page cap of several pages.
C5_Witness ==
    /\ FetchReturned
    /\ max_pages # None /\ Val(max_pages) > 1
    /\ Len(requests) = 1
    /\ "next_page" \in DOMAIN responses[1] /\ responses[1]["next_page"] = None

\* C5 witness: an absent next_page with no page cap.
C5_WitnessAbsent ==
    /\ FetchReturned
    /\ max_pages = None
    /\ Len(requests) = 1
    /\ "next_page" \notin DOMAIN responses[1]

\* C6 as stated: for every page cap max_pages = N >= 1, when every response
\* indicates that a further page is available, exactly N requests are issued.
C6_ExactlyMaxPagesRequests ==
    (FetchReturned /\ max_pages # None /\ AllIndicateNextPage) =>
        (Val(max_pages) >= 1 => Len(requests) = Val(max_pages))

\* C6 amended: for every page cap N >= 1, when every request succeeds and every
\* response indicates a further page, exactly N requests are issued unless the
\* accumulated result count reaches 1000 after fewer than N pages; the fetch
\* then stops after the first page at which the count is at least 1000.  At
\* no time have more than N requests been issued.
C6_MaxPagesOrCapRequests ==
    (FetchStarted /\ max_pages # None /\ Val(max_pages) >= 1) =>
        /\ Len(requests) <= Val(max_pages)
        /\ (FetchReturned /\ AllIndicateNextPage) =>
              /\ Len(requests) = Len(responses)
              /\ \/ Len(requests) = Val(max_pages)
                 \/ Received(Len(responses)) >= 1000
              /\ \A k \in 1..(Len(responses) - 1) : Received(k) < 1000

\* C6 witness: N = 3 pages fetched, each naming a further page, under the cap.
C6_Witness ==
    /\ FetchReturned /\ AllIndicateNextPage
    /\ max_pages = Some(3)
    /\ Len(requests) = 3
    /\ Received(3) < 1000 /\ Received(3) > 0

\* C6 witness of the amendment's case: the cap ended the fetch before N pages.
C6_WitnessCapFirst ==
    /\ FetchReturned /\ AllIndicateNextPage
    /\ max_pages = Some(3)
    /\ Len(requests) = 2

(***************************************************************************)
(* Properties of search_articles' validation.                              *)
(***************************************************************************)
SearchCalled == s_caller = "search_articles" /\ s_pc # "idle"

\* The error code of the returned mapping, "" when it carries none.
ErrorCode ==
    IF s_result.kind = "mapping" /\ "error" \in DOMAIN Val(s_result.payload)
    THEN Val(s_result.payload).error
    ELSE ""

RejectedWith(code) ==
    /\ s_pc = "done"
    /\ ErrorCode = code
    /\ requests = <<>>

\* A string that is YYYY-MM-DD exactly: ten characters, digits and dashes.
ExactDate(chars) ==
    /\ Len(chars) = 10
    /\ \A i \in {1, 2, 3, 4, 6, 7, 9, 10} : chars[i] \in Digits
    /\ chars[5] = "-" /\ chars[8] = "-"

\* C7: for each of created_after, created_before and created_at, whenever the
\* supplied (non-empty) string does not match YYYY-MM-DD exactly,
\* search_articles returns an InvalidDateFormat error mapping and issues no
\* HTTP request at all.
C7_InexactDateRejected ==
    \A i \in 1..3 :
        (/\ SearchCalled
         /\ TruthySeq(args[DateParamNames[i]])
         /\ ~ExactDate(Val(args[DateParamNames[i]])))
        => RejectedWith("InvalidDateFormat")

NonEmptyOtherThan(o, allowed) == o # None /\ Val(o) # "" /\ Val(o) \notin allowed
NoneSupplied(a) ==
    a.query = None /\ a.category = None /\ a.section = None /\ a.label_names = None
DatesPass(a) ==
    \A i \in 1..3 :
        \/ ~TruthySeq(a[DateParamNames[i]])
        \/ validate_date_format(Val(a[DateParamNames[i]]))

\* C8 as stated: each non-date validation failure returns its own error code
\* and issues no HTTP request: a (non-empty) sort_by other than "created_at"
\* gives InvalidSortParameter, a (non-empty) sort_order outside {asc, desc}
\* gives InvalidSortOrder, max_pages < 1 gives InvalidPaginationParameter,
\* none of query, category, section, label_names supplied gives
\* MissingSearchParameter.
C8_EachFailureItsOwnCode ==
    SearchCalled =>
        /\ NonEmptyOtherThan(args.sort_by, {"created_at"})
              => RejectedWith("InvalidSortParameter")
        /\ NonEmptyOtherThan(args.sort_order, {"asc", "desc"})
              => RejectedWith("InvalidSortOrder")
        /\ (args.max_pages # None /\ Val(args.max_pages) < 1)
              => RejectedWith("InvalidPaginationParameter")
        /\ NoneSupplied(args) => RejectedWith("MissingSearchParameter")

\* The code the first failing non-date check gives, "" when none fails.
FirstNonDateFailure(a) ==
    IF NonEmptyOtherThan(a.sort_by, {"created_at"}) THEN "InvalidSortParameter"
    ELSE IF NonEmptyOtherThan(a.sort_order, {"asc", "desc"}) THEN "InvalidSortOrder"
    ELSE IF a.max_pages # None /\ Val(a.max_pages) < 1 THEN "InvalidPaginationParameter"
    ELSE IF NoneSupplied(a) THEN "MissingSearchParameter"
    ELSE ""

\* C8 amended: when every date parameter passes the date check, the first
\* failing check in the order sort_by, sort_order, max_pages, search
\* parameters decides the error code, nothing is raised and no HTTP request
\* is issued: a non-empty sort_by other than "created_at" gives
\* InvalidSortParameter; otherwise a non-empty sort_order outside {asc, desc}
\* gives InvalidSortOrder; otherwise max_pages < 1 gives
\* InvalidPaginationParameter; otherwise none of query, category, section,
\* label_names supplied gives MissingSearchParameter.  When a date parameter
\* fails, the code is InvalidDateFormat whatever else is wrong.
C8_FirstFailingCheckDecides ==
    SearchCalled =>
        /\ (DatesPass(args) /\ FirstNonDateFailure(args) # "")
              => RejectedWith(FirstNonDateFailure(args))
        /\ ~DatesPass(args) => RejectedWith("InvalidDateFormat")

\* C8 witness: two checks fail at once and the earlier one decides.
C8_Witness ==
    /\ SearchCalled
    /\ NonEmptyOtherThan(args.sort_by, {"created_at"})
    /\ NonEmptyOtherThan(args.sort_order, {"asc", "desc"})
    /\ RejectedWith("InvalidSortParameter")

\* C8 witnesses: each of the other codes is returned.
C8_WitnessSortOrder == SearchCalled /\ RejectedWith("InvalidSortOrder")
C8_WitnessMaxPages ==
    SearchCalled /\ args.max_pages = Some(0) /\ RejectedWith("InvalidPaginationParameter")
C8_WitnessMissing ==
    SearchCalled /\ NoneSupplied(args) /\ RejectedWith("MissingSearchParameter")


(***************************************************************************)
(* Properties of search_articles' paging and of failing requests.          *)
(***************************************************************************)
\* C11: all_pages=True takes precedence over max_pages: whenever all_pages is
\* True the supplied max_pages is ignored, so for every max_pages value the
\* call issues the same requests and returns the same result as the same call
\* without max_pages: it is rejected only if that call is rejected, and
\* otherwise fetches from page 1 with no page cap.
C11_AllPagesIgnoresMaxPages ==
    (SearchCalled /\ args.all_pages) =>
        LET without == [args EXCEPT !.max_pages = None] IN
        IF ValidationError(without) # None
        THEN /\ s_pc = "done"
             /\ requests = <<>>
             /\ s_result = Mapping(Val(ValidationError(without)))
        ELSE /\ requests # <<>>
             /\ requests[1] = 1
             /\ max_pages = None

\* No all_pages and no max_pages: the defaults of both arguments.
DefaultPaging(a) == ~a.all_pages /\ a.max_pages = None

\* C12: when search_articles is called with neither all_pages nor max_pages
\* and validation passes, exactly one HTTP request (for page 1) is issued and
\* only the first page's results are returned, even if the response
\* indicates further pages.
C12_DefaultSinglePage ==
    (SearchCalled /\ DefaultPaging(args) /\ ValidationError(args) = None) =>
        /\ requests = <<1>>
        /\ (s_pc = "done" /\ failure = None) =>
              /\ Len(responses) = 1
              /\ Returns("results")
              /\ LET res == Val(s_result.payload)["results"] IN
                   /\ TotalLen(res) = Received(1)
                   /\ \A i \in 1..Len(res) : res[i].response = 1

\* C12 witness: the only response named a further page and carried results.
C12_Witness ==
    /\ SearchCalled /\ DefaultPaging(args)
    /\ FetchReturned /\ failure = None
    /\ Len(requests) = 1
    /\ ~LacksNextPage(responses[1])
    /\ Received(1) > 0 /\ Received(1) < 1000

\* The error code the claim gives to a failure of a page request.
CodeOfFailure(exc) ==
    CASE exc.type = "HTTPStatusError" /\ exc.status_code = Some(500) -> "HTTP 500"
      [] exc.type = "HTTPStatusError" /\ exc.status_code = Some(429) -> "HTTP 429"
      [] exc.type = "TimeoutException" -> "TimeoutError"
      [] OTHER -> "SearchError"

\* C13: a failure of any page request aborts the whole fetch: fetch_all_pages
\* propagates the error and returns no partial results, and search_articles
\* then returns, without raising, an error mapping whose code is
\* "HTTP <status code>" for an HTTP status error, "TimeoutError" for a timeout
\* and "SearchError" for any other exception, with no "results" from the
\* pages fetched before the failure; no request follows the failed one.
C13_FailureAbortsFetch ==
    failure # None =>
        /\ s_pc = "done"
        /\ Len(requests) = Len(responses) + 1
        /\ IF s_caller = "fetch_all_pages"
           THEN s_result = Raised(Val(failure))
           ELSE /\ s_result.kind = "mapping"
                /\ "results" \notin DOMAIN Val(s_result.payload)
                /\ "warnings" \notin DOMAIN Val(s_result.payload)
                /\ ErrorCode = CodeOfFailure(Val(failure))

\* C13 witness: search_articles, a timeout on the third request after two
\* pages were fetched and results accumulated.
C13_Witness ==
    /\ SearchCalled
    /\ failure # None /\ Val(failure).type = "TimeoutException"
    /\ Len(responses) = 2
    /\ Received(2) > 0
    /\ ErrorCode = "TimeoutError"

\* C13 witness: fetch_all_pages on its own lets the error through.
C13_WitnessPropagates ==
    /\ s_caller = "fetch_all_pages"
    /\ failure # None
    /\ Len(responses) >= 1 /\ Received(1) > 0
    /\ s_result.kind = "raised"

\* C20: page requests of one fetch are strictly sequential: at any moment at
\* most one request is outstanding, and request k+1 is issued only after the
\* response to request k has been received and its results appended.
C20_RequestsStrictlySequential ==
    FetchStarted =>
        /\ Len(requests) - Len(responses) \in {0, 1}
        /\ s_pc = "request" => Len(requests) = Len(responses) + 1
        /\ TotalLen(all_results) = Received(Len(responses))

\* C20 witness: the third request is outstanding, two responses were received
\* and their results appended.
C20_Witness ==
    /\ s_pc = "request"
    /\ Len(requests) = 3 /\ Len(responses) = 2
    /\ TotalLen(all_results) = Received(2) /\ Received(2) > 0


(***************************************************************************)
(* Properties of the tool function's edge cases.                           *)
(***************************************************************************)
EmptyOrMissingId(r) == r.authorization_id = None \/ r.authorization_id = Some("")

\* C14: when a tool requires authorization and authorize returns a response
\* whose authorization_id is empty or missing, the tool function returns a
\* ToolExecutionError and neither polls the authorization status nor calls
\* execute.
C14_NoAuthorizationIdIsAnError ==
    (/\ InToolFunction /\ needs_auth
     /\ auth_ret # None /\ EmptyOrMissingId(Val(auth_ret))) =>
        /\ tf_pc = "done"
        /\ result = ToolExecutionError("Authorization failed for " \o tool_name
                                       \o ": No authorization ID received")
        /\ wfc_exit = "none"
        /\ n_status = 0
        /\ n_execute = 0

\* C14 witness: an empty (not missing) id on a response that is "completed".
C14_Witness ==
    /\ InToolFunction /\ needs_auth /\ tf_pc = "done"
    /\ auth_ret # None
    /\ Val(auth_ret).authorization_id = Some("")
    /\ Val(auth_ret).status = Some("completed")
    /\ result.kind = "ToolExecutionError"

\* C14 witness: a missing id.
C14_WitnessMissing ==
    /\ InToolFunction /\ needs_auth /\ tf_pc = "done"
    /\ auth_ret # None
    /\ Val(auth_ret).authorization_id = None

NoUserId == user_id = None \/ user_id = Some("")

\* C15: authorize is never called with an empty or missing user id: with no
\* user id the error comes before any authorization is attempted (the
\* manager's construction raises ValueError, so there is no tool function to
\* invoke and no remote call is made).
C15_NoAuthorizeWithoutUserId ==
    /\ n_authorize > 0 => ~NoUserId
    /\ NoUserId =>
          /\ tf_pc = "no_manager"
          /\ result = Raised("ValueError")
          /\ n_authorize = 0 /\ n_status = 0 /\ n_execute = 0

\* C15 witness: an empty user id, refused.
C15_Witness ==
    /\ user_id = Some("")
    /\ tf_pc = "no_manager"
    /\ result = Raised("ValueError")

\* C15 witness: authorize called, with a user id.
C15_WitnessAuthorized ==
    /\ InToolFunction /\ needs_auth
    /\ n_authorize = 1
    /\ user_id = Some("test_user")

\* C16: when execute reports success, the tool function returns the
\* unwrapped output value (response.output.value) if an output is present
\* and a ToolExecutionError if the output is missing; when execute reports
\* failure it returns a ToolExecutionError whose message is the response's
\* error message if one is present and the default "Execution failed ..."
\* message otherwise.
C16_ExecuteOutcome ==
    (InToolFunction /\ exec_response # None) =>
        LET response == Val(exec_response) IN
        /\ tf_pc = "done"
        /\ (response.success /\ response.output # None) =>
              result = Value(Val(response.output).value)
        /\ (response.success /\ response.output = None) =>
              result.kind = "ToolExecutionError"
        /\ (~response.success /\ response.output # None
                /\ Val(response.output).error # None) =>
              result = ToolExecutionError(Val(Val(response.output).error).message)
        /\ (~response.success /\ (response.output = None
                \/ Val(response.output).error = None)) =>
              result = ToolExecutionError("Execution failed for " \o tool_name)

\* C16 witness: success reported, but no output.
C16_Witness ==
    /\ InToolFunction /\ exec_response # None
    /\ Val(exec_response).success /\ Val(exec_response).output = None
    /\ result.kind = "ToolExecutionError"

\* C16 witness: the unwrapped value, after an authorization.
C16_WitnessValue ==
    /\ InToolFunction /\ needs_auth /\ exec_response # None
    /\ result = Value(Some("result"))

\* C16 witness: a failure without an error message.
C16_WitnessDefaultMessage ==
    /\ InToolFunction /\ exec_response # None
    /\ ~Val(exec_response).success
    /\ Val(exec_response).output # None /\ Val(Val(exec_response).output).error = None
    /\ result = ToolExecutionError("Execution failed for " \o tool_name)

(***************************************************************************)
(* Properties of the registry.                                             *)
(***************************************************************************)
Range(seq) == {seq[i] : i \in 1..Len(seq)}

\* The catalog's definitions a call asks for: the tools named, the tools of
\* the toolkits named, the whole catalog when neither argument is given.
Requested(tools, toolkits) ==
    IF tools = None /\ toolkits = None THEN Catalog
    ELSE { t \in Catalog :
             \/ tools # None /\ ToolId(t) \in Range(Val(tools))
             \/ toolkits # None /\ t.toolkit \in Range(Val(toolkits)) }

NamesOf(defs) == {FullToolName(t) : t \in defs}

\* registry holds exactly the definitions defs, each under its full name
HoldsExactly(registry, defs) ==
    /\ DOMAIN registry = NamesOf(defs)
    /\ \A t \in defs : registry[FullToolName(t)] = t

\* C17: init_tools clears any existing tools: after init_tools(tools,
\* toolkits) the registry contains exactly the definitions retrieved by that
\* call (all catalog tools when both arguments are None), and every tool
\* registered before the call that was not retrieved again is gone.
C17_InitToolsReplacesRegistry ==
    [][\A tools \in ToolLists, toolkits \in ToolkitLists :
          init_tools(tools, toolkits) =>
              /\ HoldsExactly(self_tools', Requested(tools, toolkits))
              /\ \A k \in DOMAIN self_tools :
                    k \notin NamesOf(Requested(tools, toolkits))
                        => k \notin DOMAIN self_tools']_vars

\* C17 witness: init_tools ran last and left a single tool.
C17_Witness ==
    /\ gt_call = None
    /\ DOMAIN self_tools = {"Math_Add"}

\* C17 witness: init_tools ran last and left the whole catalog.
C17_WitnessAll ==
    /\ gt_call = None
    /\ HoldsExactly(self_tools, Catalog)

\* What a get_tools call retrieves: the definitions asked for, when the
\* registry was empty (init_tools) or tools or toolkits are given (update).
RetrievedBy(call) ==
    IF \/ DOMAIN call.before = {}
       \/ (call.tools # None /\ call.tools # Some(<<>>))
       \/ (call.toolkits # None /\ call.toolkits # Some(<<>>))
    THEN Requested(call.tools, call.toolkits)
    ELSE {}

\* C18: get_tools never removes a registered tool: the registry after
\* get_tools(tools, toolkits) is the registry before the call updated by full
\* tool name with the definitions retrieved for the given tools/toolkits, and
\* the returned list holds exactly one wrapped tool for each entry of the
\* registry as it stands after the call.
C18_GetToolsUpdatesRegistry ==
    gt_call # None =>
        LET call == Val(gt_call) IN
        /\ \A k \in DOMAIN call.before : k \in DOMAIN self_tools
        /\ DOMAIN self_tools = DOMAIN call.before \cup NamesOf(RetrievedBy(call))
        /\ \A t \in RetrievedBy(call) : self_tools[FullToolName(t)] = t
        /\ \A k \in DOMAIN call.before \ NamesOf(RetrievedBy(call)) :
              self_tools[k] = call.before[k]
        /\ Len(call.returned) = Cardinality(DOMAIN self_tools)
        /\ Range(call.returned) =
              {wrap_tool(k, self_tools[k]) : k \in DOMAIN self_tools}

\* C18 witness: a tool registered before the call and not asked for again is
\* still registered, next to the one the call added.
C18_Witness ==
    /\ gt_call # None
    /\ DOMAIN Val(gt_call).before = {"Math_Add"}
    /\ DOMAIN self_tools = {"Math_Add", "Gmail_SendEmail"}
    /\ Len(Val(gt_call).returned) = 2

\* C18 witness: no argument on a registry that holds tools retrieves nothing.
C18_WitnessNoArguments ==
    /\ gt_call # None
    /\ Val(gt_call).tools = None /\ Val(gt_call).toolkits = None
    /\ DOMAIN Val(gt_call).before = {"Math_Add"}
    /\ DOMAIN self_tools = {"Math_Add"}


(***************************************************************************)
(* Properties of process_search_results.                                   *)
(***************************************************************************)
BodyMissingOrEmpty(record) ==
    \/ "body" \notin DOMAIN record
    \/ record["body"] = None
    \/ record["body"] = Some(<<>>)

\* C19: process_search_results returns a list of the same length and order
\* as its input in which every element has exactly the keys "content" and
\* "metadata"; metadata holds every input field except "body" with its value
\* unchanged, and content is None whenever include_body is False or the
\* record's body is missing or empty.
C19_ContentAndMetadata ==
    p_pc = "done" =>
        /\ Len(p_output) = Len(p_results)
        /\ \A i \in 1..Len(p_results) :
              /\ DOMAIN p_output[i] = {"content", "metadata"}
              /\ DOMAIN p_output[i].metadata = DOMAIN p_results[i] \ {"body"}
              /\ \A key \in DOMAIN p_results[i] \ {"body"} :
                    p_output[i].metadata[key] = p_results[i][key]
              /\ (~p_include_body \/ BodyMissingOrEmpty(p_results[i]))
                    => p_output[i].content = None

\* C19 witness: two records with bodies, the first with markup and content
\* kept, the second with an empty body and hence no content.
C19_Witness ==
    /\ p_pc = "done" /\ p_include_body
    /\ Len(p_results) = 2
    /\ \A i \in 1..2 : {"id", "body"} \subseteq DOMAIN p_results[i]
    /\ p_results[1].id = Some(2) /\ p_results[2].id = Some(1)
    /\ p_output[1].content = Some(<<"a", " ", "b", " ", "c">>)
    /\ p_results[2]["body"] = Some(<<>>)
    /\ p_output[2].content = None
    /\ p_output[1].metadata.id = Some(2) /\ p_output[2].metadata.id = Some(1)

\* C19 witness: include_body False drops a body that is there.
C19_WitnessNoBody ==
    /\ p_pc = "done" /\ ~p_include_body
    /\ Len(p_results) = 1
    /\ "body" \in DOMAIN p_results[1] /\ p_results[1]["body"] = Some(LongBody)
    /\ p_output[1].content = None


\* The page the caller asked fetch_all_pages to start at.
FirstPage == IF "page" \in DOMAIN supplied THEN supplied["page"] ELSE 1

\* The results of the first k responses, in the order they arrived.
RECURSIVE ResultsOf(_)
ResultsOf(k) ==
    IF k = 0 THEN <<>>
    ELSE ResultsOf(k - 1)
         \o (IF "results" \in DOMAIN responses[k] THEN <<responses[k]["results"]>>
                                                  ELSE <<>>)

\* C21: in fetch_all_pages the k-th request carries page = p0 + k - 1, where
\* p0 is the "page" entry of the supplied params (1 when absent), so no page
\* is skipped or repeated, and the returned "results" is the concatenation of
\* every fetched response's results in request order: nothing is dropped,
\* duplicated or reordered.
C21_PagesInOrderResultsConcatenated ==
    (FetchStarted /\ s_caller = "fetch_all_pages") =>
        /\ \A k \in 1..Len(requests) : requests[k] = FirstPage + k - 1
        /\ all_results = ResultsOf(Len(responses))
        /\ FetchReturned =>
              Val(s_result.payload)["results"] = ResultsOf(Len(responses))

\* Three pages starting at page 3, two of them carrying results.
C21_Witness ==
    /\ FetchReturned
    /\ s_caller = "fetch_all_pages"
    /\ supplied = [page |-> 3]
    /\ requests = <<3, 4, 5>>
    /\ Len(Val(s_result.payload)["results"]) = 2


\* C25: in the mapping fetch_all_pages returns, a "warnings" entry is present
\* exactly when the accumulated result count is at least 1000, whatever made
\* the loop stop (result cap, page cap or missing next page).
C25_WarningsIffCapReached ==
    (FetchReturned /\ s_caller = "fetch_all_pages") =>
        (("warnings" \in DOMAIN Val(s_result.payload))
            <=> Received(Len(responses)) >= MAX_TOTAL_RESULTS)

\* C25 witness: the page cap stopped the loop on the very page that brought
\* the count to 1000, and the warning is there.
C25_Witness ==
    /\ FetchReturned
    /\ s_caller = "fetch_all_pages"
    /\ max_pages = Some(2)
    /\ Len(requests) = 2
    /\ Received(2) = MAX_TOTAL_RESULTS
    /\ Returns("warnings")

\* C25 witness: a missing next page stopped the loop below the cap, without
\* a warning.
C25_WitnessNoWarning ==
    /\ FetchReturned
    /\ s_caller = "fetch_all_pages"
    /\ Received(Len(responses)) \in 1..(MAX_TOTAL_RESULTS - 1)
    /\ LacksNextPage(responses[Len(responses)])
    /\ ~Returns("warnings")

\* fetch_all_pages was called with no page cap, or with a cap of 0.
NoPageCap == max_pages \in {None, Some(0)}

C29_ParamsNamesLastRequestedPage ==
    (FetchStarted /\ requests # <<>>) =>
        /\ DOMAIN params = DOMAIN supplied \cup {"page"}
        /\ params["page"] = requests[Len(requests)]
        /\ \A k \in DOMAIN supplied \ {"page"} : params[k] = supplied[k]
        /\ (s_pc = "done" /\ s_caller = "search_articles" /\ failure # None) =>
              /\ Len(requests) = Len(responses) + 1
              /\ Val(s_result.payload).params = params

\* C29 witness: the third request of a search failed, and the error mapping
\* names page 3.
C29_Witness ==
    /\ s_pc = "done"
    /\ s_caller = "search_articles"
    /\ failure # None
    /\ Len(responses) = 2
    /\ Val(s_result.payload).params["page"] = 3
    /\ supplied["page"] = 1

\* C29 witness: a direct call returned after three pages; the caller's
\* params, which had no page, now names the last one.
C29_WitnessReturn ==
    /\ FetchReturned
    /\ s_caller = "fetch_all_pages"
    /\ supplied = [query |-> "test"]
    /\ params = [query |-> "test", page |-> 3]


\* C23: the pagination loop is bounded: once fetch_all_pages has issued a
\* request it eventually returns, for every sequence of successful page
\* responses, also when the page cap is unbounded (max_pages = None).
C23_FetchEventuallyReturns == (lp_pc = "get") ~> (lp_pc = "returned")

\* The case in which the value is returned: the text (of tr_text) is longer
\* than max_length.
TooLong == TruthySeq(tr_text) /\ Len(Val(tr_text)) > tr_max_length

\* C24: truncate_text(text, max_length, suffix) returns text unchanged when
\* it is None, empty or no longer than max_length; otherwise it returns the
\* suffix alone when max_length - len(suffix) <= 0, and else a string of
\* length exactly max_length made of the first (max_length - len(suffix))
\* characters of text followed by the suffix.
C24_TruncateText ==
    tr_pc = "done" =>
        IF ~TooLong THEN tr_output = tr_text
        ELSE IF tr_max_length - Len(tr_suffix) <= 0 THEN tr_output = Some(tr_suffix)
        ELSE /\ Len(Val(tr_output)) = tr_max_length
             /\ \A i \in 1..tr_max_length :
                   Val(tr_output)[i] =
                       IF i <= tr_max_length - Len(tr_suffix)
                       THEN Val(tr_text)[i]
                       ELSE tr_suffix[i - (tr_max_length - Len(tr_suffix))]

\* C24 witness: a text cut to its first two characters plus the default suffix.
C24_Witness ==
    /\ tr_pc = "done"
    /\ tr_text = Some(SubSeq(Alphabet, 1, 19))
    /\ tr_max_length = 18
    /\ tr_suffix = TruncationSuffix
    /\ tr_output = Some(<<"a", "b">> \o TruncationSuffix)

\* C24 witness: no room for anything but the suffix.
C24_WitnessSuffixOnly ==
    /\ tr_pc = "done"
    /\ TooLong
    /\ tr_max_length = Len(tr_suffix)
    /\ tr_suffix # <<>>
    /\ tr_output = Some(tr_suffix)

\* C24 witness: a text of exactly max_length characters comes back whole.
C24_WitnessExactFit ==
    /\ tr_pc = "done"
    /\ TruthySeq(tr_text)
    /\ Len(Val(tr_text)) = tr_max_length
    /\ tr_output = tr_text


\* wait_for_completion is between its entry and its exit.
Waiting == tf_pc \in {"wait_head", "status"}

\* Status polls that were answered so far in this wait.
PollsAnswered == IF tf_pc = "status" THEN n_status - 1 ELSE n_status

C22_WitnessAtTimeout ==
    /\ tf_pc = "status"
    /\ elapsed = timeout
    /\ n_status >= 2

\* C22 witness: the return right after the first "completed" answer.
C22_WitnessCompleted ==
    /\ wfc_exit = "completed"
    /\ n_status >= 2
    /\ elapsed < timeout

\* The registry gives no authorization requirement for name.
NoAuthorizationDeclared(name) ==
    \/ name \notin DOMAIN self_tools
    \/ self_tools[name].requirements = None
    \/ Val(self_tools[name].requirements).authorization = None

\* The tool function is between its entry and its exit.
Running == caller = "tool_function" /\ tf_pc \notin {"idle", "done", "no_manager"}

\* C27: a tool that is not in the registry, has no requirements or has
\* requirements without authorization does not require authorization: the
\* tool function calls execute directly, without authorize and without any
\* status poll.
C27_NoAuthorizationExecutesDirectly ==
    /\ (Running /\ NoAuthorizationDeclared(tool_name)) =>
          (~needs_auth /\ tf_pc = "execute")
    /\ (InToolFunction /\ ~needs_auth) =>
          /\ n_authorize = 0
          /\ n_status = 0
          /\ n_execute = 1
          /\ auth_ret = None
          /\ wfc_exit = "none"

\* C27 witness: a tool the (non-empty) registry does not hold was executed.
C27_Witness ==
    /\ InToolFunction
    /\ tf_pc = "done"
    /\ self_tools # <<>>
    /\ tool_name \notin DOMAIN self_tools
    /\ n_execute = 1
    /\ result.kind = "value"

\* C27 witnesses: requirements without authorization, and no requirements.
C27_WitnessNoAuthorization ==
    /\ Running
    /\ tool_name \in DOMAIN self_tools
    /\ self_tools[tool_name].requirements = NoAuthorization
    /\ tf_pc = "execute"

C27_WitnessNoRequirements ==
    /\ Running
    /\ tool_name \in DOMAIN self_tools
    /\ self_tools[tool_name].requirements = None
    /\ tf_pc = "execute"


\* C28: every invocation of the tool function for a tool that requires
\* authorization calls authorize exactly once, before any status poll and
\* before execute, also when an earlier invocation already completed the
\* authorization (nothing is kept between invocations), and it calls execute
\* at most once.
C28_AuthorizeOncePerInvocation ==
    (InToolFunction /\ needs_auth) =>
        /\ n_authorize = 1
        /\ n_execute <= 1
        /\ tf_pc = "authorize" => (n_status = 0 /\ n_execute = 0 /\ auth_ret = None)
        /\ (n_status > 0 \/ n_execute > 0) => auth_ret # None

\* C28 witness: after an invocation that completed the authorization, the
\* next one is calling authorize again.
C28_Witness ==
    /\ authorized_before
    /\ InToolFunction
    /\ needs_auth
    /\ tf_pc = "authorize"
    /\ n_authorize = 1

\* C28 witness: such a later invocation went through authorize, polls and
\* execute.
C28_WitnessExecuted ==
    /\ authorized_before
    /\ InToolFunction
    /\ needs_auth
    /\ tf_pc = "done"
    /\ n_status >= 1
    /\ n_execute = 1

\* get_tools was given a non-empty tools or toolkits argument.
NonEmptyArgument(call) == TruthySeq(call.tools) \/ TruthySeq(call.toolkits)

\* C30: a get_tools call with a non-empty tools or toolkits argument on an
\* empty registry retrieves the requested definitions twice (once in
\* init_tools, once for the update), on a non-empty registry once; both
\* retrievals returning the same definitions, the resulting registry is that
\* of a single retrieval.
C30_GetToolsRetrievesTwiceOnEmptyRegistry ==
    (gt_call # None /\ NonEmptyArgument(Val(gt_call))) =>
        LET call == Val(gt_call)
            asked == [tools |-> call.tools, toolkits |-> call.toolkits]
        IN /\ call.retrievals = IF DOMAIN call.before = {} THEN <<asked, asked>>
                                                          ELSE <<asked>>
           /\ DOMAIN call.before = {} =>
                 HoldsExactly(self_tools, Requested(call.tools, call.toolkits))

\* C30 witness: two retrievals on an empty registry left the one tool asked for.
C30_Witness ==
    /\ gt_call # None
    /\ Val(gt_call).before = <<>>
    /\ Val(gt_call).tools = Some(<<"Math.Add">>)
    /\ Len(Val(gt_call).retrievals) = 2
    /\ DOMAIN self_tools = {"Math_Add"}

\* C30 witness: one retrieval on a registry that held a tool.
C30_WitnessOnce ==
    /\ gt_call # None
    /\ DOMAIN Val(gt_call).before = {"Math_Add"}
    /\ NonEmptyArgument(Val(gt_call))
    /\ Len(Val(gt_call).retrievals) = 1

=============================================================================
